---- MODULE Spec2Model ----
(***************************************************************************)
(* Interactive database shells of mongodb-cli:                             *)
(*   "mongo" : the MongoDB REPL         (src/repl.js, lines 1-330)         *)
(*   "pg"    : the PostgreSQL REPL      (src/repl.js, lines 332-639)       *)
(*   "rl"    : the readline MongoDB shell (src/unnamed/part_000, 24-133)   *)
(* A command handler is an async function: it runs synchronously up to its *)
(* first await, and each later segment runs when the awaited driver call   *)
(* delivers its result or error.  Input lines are delivered by the 'line'  *)
(* event of readline / the REPL whenever they arrive; nothing in the       *)
(* sources pauses the input while a handler is awaiting.                   *)
(* Text is modelled as sequences of one-character strings.                 *)
(***************************************************************************)
EXTENDS Integers, Sequences, FiniteSets, TLC

\* number of input lines of a session
MaxLines == 3

-----------------------------------------------------------------------------
(* Text helpers *)

WS == {" ", "\t", "\n"}

RECURSIVE TrimLeft(_)
TrimLeft(s) == IF s # <<>> /\ Head(s) \in WS THEN TrimLeft(Tail(s)) ELSE s

RECURSIVE TrimRight(_)
TrimRight(s) ==
  IF s # <<>> /\ s[Len(s)] \in WS THEN TrimRight(SubSeq(s, 1, Len(s) - 1)) ELSE s

\* String.prototype.trim
Trim(s) == TrimRight(TrimLeft(s))

\* String.prototype.startsWith
StartsWith(s, p) == Len(s) >= Len(p) /\ SubSeq(s, 1, Len(p)) = p

\* String.prototype.endsWith
EndsWith(s, p) == Len(s) >= Len(p) /\ SubSeq(s, Len(s) - Len(p) + 1, Len(s)) = p

\* String.prototype.split(' '): the pieces between single spaces
RECURSIVE SplitFrom(_, _)
SplitFrom(s, cur) ==
  IF s = <<>> THEN <<cur>>
  ELSE IF Head(s) = " " THEN <<cur>> \o SplitFrom(Tail(s), <<>>)
  ELSE SplitFrom(Tail(s), Append(cur, Head(s)))

SplitSpace(s) == SplitFrom(s, <<>>)

\* name.replace(/[-\s]/g, "_") of setupCollectionAliases
NormalizeAlias(name) ==
  [i \in DOMAIN name |-> IF name[i] = "-" \/ name[i] \in WS THEN "_" ELSE name[i]]

-----------------------------------------------------------------------------
(* The databases the driver serves *)

DbDefault == <<"D">>
DbA == <<"A">>
DbB == <<"B">>

\* listCollections() of each database
Collections(db) ==
  IF db = DbA THEN {<<"a", "-", "b">>, <<"a", "_", "b">>}
  ELSE IF db = DbB THEN {<<"c">>, <<"d", "b">>}
  ELSE {<<"c">>}

\* the orders in which listCollections().toArray() may deliver a database's names
Listings(db) ==
  {s \in [1..Cardinality(Collections(db)) -> Collections(db)] :
     \A i, j \in DOMAIN s : i # j => s[i] # s[j]}

-----------------------------------------------------------------------------
(* Values of the REPL context and of results *)

Val(t, a, b, k) == [t |-> t, a |-> a, b |-> b, k |-> k]

Unbound == Val("unbound", <<>>, <<>>, 0)
ErrVal == Val("error", <<>>, <<>>, 0)
DbHandle(db) == Val("db", db, <<>>, 0)
CollHandle(db, name) == Val("coll", db, name, 0)
ClientVal(id) == Val("client", <<>>, <<>>, id)
\* the pending promise of <collection>.find().toArray()
Pending(h) == Val("pending", h.a, h.b, 0)
\* documents held by a collection: the collection of the default database is
\* empty, every other collection holds DocCount documents
DocCount == 2
DocCountOf(db, name) == IF db # DbDefault /\ name \in Collections(db) THEN DocCount ELSE 0
Docs(db, name) == Val("docs", db, name, DocCountOf(db, name))

KeyDollar == <<"$">>
KeyDb == <<"d", "b">>
KeyClient == <<"client">>

CtxKeys == {KeyDollar, KeyDb, KeyClient} \cup 
  {NormalizeAlias(c) : c \in UNION {Collections(db) : db \in {DbDefault, DbA, DbB}}}

\* PostgreSQL: result.rows of a SQL text; "qx" is rejected by the server
SqlOk(sql) == sql # <<"qx">>
SqlRowCount(sql) == IF sql = <<"q0">> THEN 0 ELSE 1
Rows(sql) == Val("rows", sql, <<>>, SqlRowCount(sql))

-----------------------------------------------------------------------------
(* Input lines *)

Line(kind, name, arg) == [kind |-> kind, name |-> name, arg |-> arg]

\* a line of the REPL as repl's line handler parses it: ".<keyword> <rest>"
Dot(name, arg) == Line("dot", name, arg)
\* a line that is not a dot-command: expression source / SQL text
Raw(name, arg) == Line("raw", name, arg)
\* a line of the readline shell, the text as typed
Text(arg) == Line("text", "", arg)

S_exit == <<"e", "x", "i", "t">>
S_quit == <<"q", "u", "i", "t">>
S_use_sp == <<"u", "s", "e", " ">>
S_databases == <<"d", "a", "t", "a", "b", "a", "s", "e", "s">>
S_collections == <<"c", "o", "l", "l", "e", "c", "t", "i", "o", "n", "s">>

MongoLines ==
  {Dot("use", a) : a \in {<<>>, DbA, DbB}}
  \cup {Dot(c, <<>>) : c \in {"databases", "collections", "pretty", "clear",
                              "helpme", "help", "exit", "quit"}}
  \cup {Dot(c, a) : c \in {"export", "count", "stats"}, a \in {<<>>, <<"c">>}}
  \cup {Dot("top", <<"c">>)}
  \cup {Raw("ident", a) : a \in {<<"c">>, <<"a", "_", "b">>}}
  \cup {Raw("find", <<"c">>)}

PgLines ==
  {Dot("use", a) : a \in {DbA, DbB}}
  \cup {Dot(c, <<>>) : c \in {"tables", "clear", "help", "exit", "quit"}}
  \cup {Dot(c, <<"t">>) : c \in {"describe", "count"}}
  \cup {Dot("query", a) : a \in {<<"q1">>, <<"q0">>}}
  \cup {Dot("queryp", <<"q1">>)}
  \cup {Dot("export", <<"f">>)}
  \cup {Raw("sql", a) : a \in {<<"q1">>, <<"q0">>, <<"qx">>}}

RlLines ==
  {Text(t) : t \in {S_exit, S_quit, <<"u", "s", "e">>, S_use_sp \o DbA, S_use_sp \o <<" ">> \o DbB,
                    <<" ">> \o S_databases, S_collections, <<"d", "b">>, <<>>}}


-----------------------------------------------------------------------------
(* Argument text of the MongoDB .export command *)

\* position of the first double quote of s, 0 when there is none
RECURSIVE QuotePos(_, _)
QuotePos(s, i) ==
  IF i > Len(s) THEN 0 ELSE IF s[i] = "\"" THEN i ELSE QuotePos(s, i + 1)

\* input.match(/(?:[^\s"]+|"[^"]*")+/g) || []
RECURSIVE TokensFrom(_, _)
TokensFrom(s, cur) ==
  LET emit == IF cur = <<>> THEN <<>> ELSE <<cur>> IN
  IF s = <<>> THEN emit
  ELSE IF Head(s) \in WS THEN emit \o TokensFrom(Tail(s), <<>>)
  ELSE IF Head(s) = "\"" THEN
    LET k == QuotePos(Tail(s), 1) IN
    IF k = 0 THEN emit \o TokensFrom(Tail(s), <<>>)
    ELSE TokensFrom(SubSeq(s, k + 2, Len(s)), cur \o SubSeq(s, 1, k + 1))
  ELSE TokensFrom(Tail(s), Append(cur, Head(s)))

ExportArgs(input) == TokensFrom(input, <<>>)

\* text.replace(/^['"]|['"]$/g, "")
StripQuotes(t) ==
  LET Quotes == {"'", "\""}
      a == IF t # <<>> /\ Head(t) \in Quotes THEN Tail(t) ELSE t IN
  IF a # <<>> /\ a[Len(a)] \in Quotes THEN SubSeq(a, 1, Len(a) - 1) ELSE a

\* JSON text: the suffixes left after one JSON value at the start of s
\* (objects of at most one member, strings, numbers)
JWs(s) == TrimLeft(s)

JStringRest(s) ==
  IF s # <<>> /\ Head(s) = "\"" /\ QuotePos(Tail(s), 1) # 0
  THEN {SubSeq(s, QuotePos(Tail(s), 1) + 2, Len(s))} ELSE {}

RECURSIVE JDigitsRest(_)
JDigitsRest(s) ==
  IF s # <<>> /\ Head(s) \in {"0", "1"} THEN {Tail(s)} \cup JDigitsRest(Tail(s)) ELSE {}

\* a number: 0, or digits not starting with 0
JNumberRest(s) ==
  IF s # <<>> /\ Head(s) = "0" THEN {Tail(s)} ELSE JDigitsRest(s)

Expect(rests, ch) ==
  {Tail(JWs(r)) : r \in {q \in rests : JWs(q) # <<>> /\ Head(JWs(q)) = ch}}

RECURSIVE JValueRest(_)
JValueRest(s) ==
  LET t == JWs(s) IN
  IF t = <<>> THEN {}
  ELSE IF Head(t) = "{" THEN
    Expect({Tail(t)}, "}")
    \cup Expect(UNION {JValueRest(r) : r \in Expect(JStringRest(JWs(Tail(t))), ":")}, "}")
  ELSE JStringRest(t) \cup JNumberRest(t)

\* JSON.parse(text) returns (TRUE) or throws SyntaxError (FALSE)
JsonParses(text) == \E r \in JValueRest(text) : JWs(r) = <<>>

EmptyObject == <<"{", "}">>

\* JSON.parse: the parsed value is denoted by the text without its blanks
JsonValue(text) == SelectSeq(text, LAMBDA ch : ch \notin WS)

\* as ParseOrEmpty, without the try/catch around JSON.parse
ParseOrEmpty_NoCatch(arg) ==
  IF JsonParses(StripQuotes(arg))
  THEN [value |-> JsonValue(StripQuotes(arg)), warned |-> FALSE, raised |-> FALSE]
  ELSE [value |-> EmptyObject, warned |-> FALSE, raised |-> TRUE]

\* filter = {}; try { filter = JSON.parse(args[1].replace(...)) } catch { warn }
ParseOrEmpty(arg) ==
  IF JsonParses(StripQuotes(arg))
  THEN [value |-> JsonValue(StripQuotes(arg)), warned |-> FALSE, raised |-> FALSE]
  ELSE [value |-> EmptyObject, warned |-> TRUE, raised |-> FALSE]

S_json == <<".", "j", "s", "o", "n">>
S_csv == <<".", "c", "s", "v">>

\* the argument parsing of the .export action, up to the query
ExportParse(input) ==
  LET args == ExportArgs(input)
      f == IF Len(args) >= 2 THEN ParseOrEmpty(args[2])
           ELSE [value |-> EmptyObject, warned |-> FALSE, raised |-> FALSE]
      p == IF Len(args) >= 3 THEN ParseOrEmpty(args[3])
           ELSE [value |-> EmptyObject, warned |-> FALSE, raised |-> FALSE]
  IN [usage |-> Len(args) < 1,
      collName |-> IF Len(args) >= 1 THEN args[1] ELSE <<>>,
      filter |-> f.value, filterWarned |-> f.warned,
      projection |-> p.value, projectionWarned |-> p.warned,
      raised |-> f.raised \/ p.raised,
      file |-> IF Len(args) >= 4 THEN args[4]
               ELSE IF Len(args) >= 1 THEN args[1] \o S_json ELSE S_json]

-----------------------------------------------------------------------------
(* Session state *)

VARIABLES
  shell,        \* which of the three programs runs
  proc,         \* "connecting", "closing", "running", "exited"
  exitCode,     \* the process exit code, -1 while it runs
  exitCause,    \* what ended the process
  currentDb,    \* currentDb (MongoDB) / currentDbName (PostgreSQL)
  promptStr,    \* the prompt
  prettyOutput, \* the pretty-output toggle
  ctx,          \* r.context: name -> value
  client,       \* the client the variable `client` refers to
  conn,         \* client -> "none", "new", "connected", "ended", "failed"
  tasks,        \* the command handlers awaiting a driver call: id -> record
  n,            \* number of input lines delivered so far
  out,          \* the last line printed by a handler
  disp,         \* how the last input line was dispatched
  lastDone,     \* how the last finished handler ended
  lastResult,   \* the result of the last command that produced one
  prettyRun,    \* number of .pretty commands in a row just run (0, 1, 2)
  snap,         \* the session state before the first of them
  csvData,      \* CSV export on its own: the result set to export
  csvFile,      \* the file it writes
  csvPc         \* "idle", "ready", "done", "crashed"

procVars == <<proc, exitCode, exitCause>>
sessVars == <<currentDb, promptStr, prettyOutput, ctx>>
connVars == <<client, conn>>
\* what no command changes
fixed == <<shell, csvData, csvFile, csvPc>>
vars == <<shell, proc, exitCode, exitCause, currentDb, promptStr, prettyOutput, ctx,
          client, conn, tasks, n, out, disp, lastDone, lastResult, prettyRun, snap,
          csvData, csvFile, csvPc>>

Session == [pretty |-> prettyOutput, db |-> currentDb, prompt |-> promptStr, ctx |-> ctx]
NoSnap == [pretty |-> FALSE, db |-> <<>>, prompt |-> <<>>,
           ctx |-> [k \in CtxKeys |-> Unbound]]

Out(tag, k) == [tag |-> tag, k |-> k]
NoDone == [id |-> 0, handler |-> "none", outcome |-> "none", prompted |-> FALSE]
NoDisp == [line |-> Line("none", "", <<>>), handler |-> "none", evald |-> FALSE]

NoFile == [written |-> FALSE, text |-> <<>>]

\* the program has asked for the connection string and calls client.connect()
Started ==
  /\ proc = "connecting"
  /\ exitCode = -1
  /\ exitCause = "none"
  /\ currentDb = <<>>
  /\ promptStr = <<>>
  /\ prettyOutput = FALSE
  /\ ctx = [k \in CtxKeys |-> Unbound]
  /\ client = 0
  /\ conn = [i \in 0..MaxLines |-> IF i = 0 THEN "new" ELSE "none"]
  /\ tasks = <<>>
  /\ n = 0
  /\ out = Out("none", 0)
  /\ disp = NoDisp
  /\ lastDone = NoDone
  /\ lastResult = Unbound
  /\ prettyRun = 0
  /\ snap = NoSnap

Init ==
  /\ shell \in {"mongo", "pg", "rl"}
  /\ Started
  /\ csvData = <<>>
  /\ csvFile = NoFile
  /\ csvPc = "idle"

-----------------------------------------------------------------------------
(* Building blocks of the handlers *)

\* process.exit(code)
Exit(code, cause) ==
  /\ proc' = "exited"
  /\ exitCode' = code
  /\ exitCause' = cause

\* a handler has run that is not .pretty
NotPretty == prettyRun' = 0 /\ snap' = NoSnap

\* the handler of line id suspends at an await of a driver call with
\* arguments q, on the value cap or the client cid
AwaitCall(id, l, pc, cap, cid, q) ==
  tasks' = tasks @@ (id :> [line |-> l, h |-> disp'.handler, pc |-> pc, cap |-> cap,
                            cid |-> cid, q |-> q])

Await(id, l, pc, cap, cid) == AwaitCall(id, l, pc, cap, cid, <<>>)

\* the handler of line id moves to its next await
Move(id, pc, cap, cid) ==
  tasks' = [tasks EXCEPT ![id] = [@ EXCEPT !.pc = pc, !.cap = cap, !.cid = cid]]

\* the handler of line id returns
Drop(id) == tasks' = [j \in DOMAIN tasks \ {id} |-> tasks[j]]

\* the handler of line id has ended: by its own return or caught error, with
\* the prompt redisplayed or not
Done(id, outcome, prompted) ==
  lastDone' = [id |-> id,
               handler |-> IF id = n + 1 THEN disp'.handler ELSE tasks[id].h,
               outcome |-> outcome, prompted |-> prompted]

\* The promise of an async handler rejects and nothing catches it.  The
\* PostgreSQL program installs process.on("unhandledRejection") and exits with 1.
\* The MongoDB programs install no handler: Node 15 and later end the
\* process with code 1, Node 14 prints a warning and goes on.
UnhandledRejection(id) ==
  /\ Done(id, "rejected", FALSE)
  /\ IF shell = "pg" THEN Exit(1, "unhandled_rejection")
     ELSE Exit(1, "unhandled_rejection") \/ UNCHANGED procVars

\* the continuation of the handler of line id runs
Resumes(sh, id, pc) ==
  /\ proc = "running"
  /\ shell = sh
  /\ id \in DOMAIN tasks
  /\ tasks[id].pc = pc

-----------------------------------------------------------------------------
(* Startup *)

\* await client.connect() succeeds; the shell starts
ConnectOk ==
  /\ proc = "connecting"
  /\ proc' = "running"
  /\ conn' = [conn EXCEPT ![0] = "connected"]
  /\ currentDb' = IF shell = "pg" THEN <<>> ELSE DbDefault
  /\ promptStr' = DbDefault
  /\ ctx' = IF shell = "mongo"
            THEN [ctx EXCEPT ![KeyClient] = ClientVal(0), ![KeyDb] = DbHandle(DbDefault)]
            ELSE IF shell = "pg" THEN [ctx EXCEPT ![KeyClient] = ClientVal(0)]
            ELSE ctx
  /\ UNCHANGED <<fixed, exitCode, exitCause, prettyOutput, client, tasks, n, out, disp,
                 lastDone, lastResult, prettyRun, snap>>

\* await client.connect() rejects.
\* mongo: the catch awaits client.close() and then exits with 1.
\* pg:    the catch exits with 1.
\* rl:    the catch reads `client`, a const of the try block, which is out of
\*        scope there: a ReferenceError inside the async callback, unhandled.
\*        Node 15+ ends the process with 1; Node 14 warns, and the process,
\*        left with nothing to wait for, ends with 0.
ConnectFail ==
  /\ proc = "connecting"
  /\ conn' = [conn EXCEPT ![0] = "failed"]
  /\ out' = Out("connection_failed", 0)
  /\ IF shell = "mongo" THEN proc' = "closing" /\ UNCHANGED <<exitCode, exitCause>>
     ELSE IF shell = "pg" THEN Exit(1, "connect_failed")
     ELSE Exit(1, "connect_failed") \/ Exit(0, "connect_failed")
  /\ UNCHANGED <<fixed, currentDb, promptStr, prettyOutput, ctx, client, tasks, n, disp,
                 lastDone, lastResult, prettyRun, snap>>

\* mongo: client.close() of the catch has returned; process.exit(1)
ConnectFailExit ==
  /\ proc = "closing"
  /\ conn' = [conn EXCEPT ![0] = "ended"]
  /\ Exit(1, "connect_failed")
  /\ UNCHANGED <<fixed, currentDb, promptStr, prettyOutput, ctx, client, tasks, n, out,
                 disp, lastDone, lastResult, prettyRun, snap>>

-----------------------------------------------------------------------------
(* Dispatch of an input line *)

\* the commands the programs register with r.defineCommand
MongoCommands == {"use", "databases", "collections", "export", "count", "stats", "top",
                  "pretty", "clear", "helpme", "exit"}
PgCommands == {"tables", "use", "describe", "query", "queryp", "count", "export", "exit",
               "clear", "help"}
\* the commands every repl server has before defineCommand adds or replaces any
ReplBuiltins == {"break", "clear", "editor", "exit", "help", "load", "save"}

Commands(sh) ==
  IF sh = "mongo" THEN MongoCommands ELSE IF sh = "pg" THEN PgCommands ELSE {}

\* repl's line handler: a line ".<keyword> <rest>" runs the action defined under
\* that keyword with <rest>, or prints "Invalid REPL keyword"; any other line is
\* handed to the eval function of repl.start
ReplRoute(sh, l) ==
  IF l.kind = "dot"
  THEN IF l.name \in Commands(sh) \cup ReplBuiltins THEN l.name ELSE "invalid"
  ELSE "eval"

\* as RlRoute, the collections branch without its return
RlRoute_FallsThrough(l) ==
  LET input == Trim(l.arg) IN
  IF input = S_exit \/ input = S_quit THEN "exit"
  ELSE IF StartsWith(input, S_use_sp) THEN "use"
  ELSE IF input = S_databases THEN "databases"
  ELSE "eval"

\* shell.on('line'): the chain of ifs over input = line.trim()
RlRoute(l) ==
  LET input == Trim(l.arg) IN
  IF input = S_exit \/ input = S_quit THEN "exit"
  ELSE IF StartsWith(input, S_use_sp) THEN "use"
  ELSE IF input = S_databases THEN "databases"
  ELSE IF input = S_collections THEN "collections"
  ELSE "eval"

Route(sh, l) == IF sh = "rl" THEN RlRoute(l) ELSE ReplRoute(sh, l)

\* line l arrives at program sh and is routed to handler h
Arrive(sh, l, h) ==
  /\ proc = "running"
  /\ shell = sh
  /\ n < MaxLines
  /\ Route(sh, l) = h
  /\ n' = n + 1

\* line l has run handler h; evald: the eval function was called with it
Dispatched(l, h, evald) == disp' = [line |-> l, handler |-> h, evald |-> evald]

-----------------------------------------------------------------------------
(* MongoDB REPL: the command actions *)

\* setupCollectionAliases: context[alias] = db.collection(name), in listing order
RECURSIVE SetAliases(_, _, _)
SetAliases(c, db, names) ==
  IF names = <<>> THEN c
  ELSE SetAliases([c EXCEPT ![NormalizeAlias(Head(names))] = CollHandle(db, Head(names))],
                  db, Tail(names))

\* .use <dbname>, up to the await of listCollections() in setupCollectionAliases
MongoUse(l) ==
  /\ Arrive("mongo", l, "use")
  /\ Dispatched(l, "use", FALSE)
  /\ IF l.arg = <<>>
     THEN /\ out' = Out("usage", 0)
          /\ Done(n + 1, "usage", TRUE)
          /\ UNCHANGED <<currentDb, promptStr, ctx, tasks>>
     ELSE /\ currentDb' = Trim(l.arg)
          /\ ctx' = [ctx EXCEPT ![KeyDb] = DbHandle(Trim(l.arg))]
          /\ promptStr' = Trim(l.arg)
          /\ out' = Out("switched", 0)
          /\ Await(n + 1, l, "use_list", DbHandle(Trim(l.arg)), 0)
          /\ UNCHANGED lastDone
  /\ NotPretty
  /\ UNCHANGED <<fixed, procVars, prettyOutput, connVars, lastResult>>

\* .use: the listing has arrived (aliases are set, prompt) or has failed
MongoUseListed(id) ==
  /\ Resumes("mongo", id, "use_list")
  /\ Drop(id)
  /\ \/ \E names \in Listings(tasks[id].cap.a) :
          /\ ctx' = SetAliases(ctx, tasks[id].cap.a, names)
          /\ out' = Out("alias", Len(names))
          /\ Done(id, "ok", TRUE)
          /\ UNCHANGED procVars
     \/ /\ UnhandledRejection(id)
        /\ UNCHANGED <<ctx, out>>
  /\ NotPretty
  /\ UNCHANGED <<fixed, currentDb, promptStr, prettyOutput, connVars, n, disp, lastResult>>

\* .databases
MongoDatabases(l) ==
  /\ Arrive("mongo", l, "databases")
  /\ Dispatched(l, "databases", FALSE)
  /\ Await(n + 1, l, "databases", Unbound, 0)
  /\ NotPretty
  /\ UNCHANGED <<fixed, procVars, sessVars, connVars, out, lastDone, lastResult>>

MongoDatabasesListed(id) ==
  /\ Resumes("mongo", id, "databases")
  /\ Drop(id)
  /\ \/ /\ out' = Out("databases", 0)
        /\ Done(id, "ok", TRUE)
        /\ UNCHANGED procVars
     \/ /\ UnhandledRejection(id)
        /\ UNCHANGED out
  /\ NotPretty
  /\ UNCHANGED <<fixed, sessVars, connVars, n, disp, lastResult>>

\* .collections
MongoCollections(l) ==
  /\ Arrive("mongo", l, "collections")
  /\ Dispatched(l, "collections", FALSE)
  /\ Await(n + 1, l, "collections", DbHandle(currentDb), 0)
  /\ NotPretty
  /\ UNCHANGED <<fixed, procVars, sessVars, connVars, out, lastDone, lastResult>>

MongoCollectionsListed(id) ==
  /\ Resumes("mongo", id, "collections")
  /\ Drop(id)
  /\ \/ /\ out' = Out("collections", Cardinality(Collections(tasks[id].cap.a)))
        /\ Done(id, "ok", TRUE)
        /\ UNCHANGED procVars
     \/ /\ UnhandledRejection(id)
        /\ UNCHANGED out
  /\ NotPretty
  /\ UNCHANGED <<fixed, sessVars, connVars, n, disp, lastResult>>

\* .export <collection> [filterJSON] [projectionJSON] [filename], up to the
\* await of find(filter, { projection }).toArray(); the parsing stands outside
\* the try of the query, so a throw of it would reject the action's promise
MongoExport(l) ==
  /\ Arrive("mongo", l, "export")
  /\ Dispatched(l, "export", FALSE)
  /\ LET a == ExportParse(l.arg) IN
     IF a.usage
     THEN /\ out' = Out("usage", 0)
          /\ Done(n + 1, "usage", TRUE)
          /\ UNCHANGED <<procVars, tasks>>
     ELSE IF a.raised
     THEN /\ UnhandledRejection(n + 1)
          /\ UNCHANGED <<out, tasks>>
     ELSE /\ out' = IF a.filterWarned \/ a.projectionWarned
                    THEN Out("invalid_json", (IF a.filterWarned THEN 1 ELSE 0)
                                             + (IF a.projectionWarned THEN 2 ELSE 0))
                    ELSE out
          /\ AwaitCall(n + 1, l, "export_find", CollHandle(currentDb, a.collName), 0,
                       <<a.filter, a.projection>>)
          /\ UNCHANGED <<procVars, lastDone>>
  /\ NotPretty
  /\ UNCHANGED <<fixed, sessVars, connVars, lastResult>>

\* .export: the documents have arrived (await of writeFile) or the query
\* has failed (caught: "Export failed", prompt)
MongoExportFound(id) ==
  /\ Resumes("mongo", id, "export_find")
  /\ \/ /\ Move(id, "export_write", Docs(tasks[id].cap.a, tasks[id].cap.b), 0)
        /\ UNCHANGED <<out, lastDone>>
     \/ /\ Drop(id)
        /\ out' = Out("export_failed", 0)
        /\ Done(id, "caught", TRUE)
  /\ NotPretty
  /\ UNCHANGED <<fixed, procVars, sessVars, connVars, n, disp, lastResult>>

\* .export: the file is written, or writing has failed (caught); prompt
MongoExportWritten(id) ==
  /\ Resumes("mongo", id, "export_write")
  /\ Drop(id)
  /\ \/ /\ out' = Out(IF EndsWith(ExportParse(tasks[id].line.arg).file, S_csv)
                      THEN "exported_csv" ELSE "exported_json", tasks[id].cap.k)
        /\ Done(id, "ok", TRUE)
     \/ /\ out' = Out("export_failed", 0)
        /\ Done(id, "caught", TRUE)
  /\ NotPretty
  /\ UNCHANGED <<fixed, procVars, sessVars, connVars, n, disp, lastResult>>

\* .count <collection>: `return console.log(usage)` without an argument
MongoCount(l) ==
  /\ Arrive("mongo", l, "count")
  /\ Dispatched(l, "count", FALSE)
  /\ IF l.arg = <<>>
     THEN /\ out' = Out("usage", 0)
          /\ Done(n + 1, "usage", FALSE)
          /\ UNCHANGED tasks
     ELSE /\ Await(n + 1, l, "count", CollHandle(currentDb, l.arg), 0)
          /\ UNCHANGED <<out, lastDone>>
  /\ NotPretty
  /\ UNCHANGED <<fixed, procVars, sessVars, connVars, lastResult>>

\* as MongoCounted, with a count of 0 taken for "nothing found": a warning
\* and a return without the prompt
MongoCounted_ZeroIsFalsy(id) ==
  /\ Resumes("mongo", id, "count")
  /\ Drop(id)
  /\ \/ /\ IF DocCountOf(tasks[id].cap.a, tasks[id].cap.b) = 0
           THEN out' = Out("error", 0) /\ Done(id, "caught", FALSE)
           ELSE /\ out' = Out("count", DocCountOf(tasks[id].cap.a, tasks[id].cap.b))
                /\ Done(id, "ok", TRUE)
        /\ UNCHANGED procVars
     \/ /\ UnhandledRejection(id)
        /\ UNCHANGED out
  /\ NotPretty
  /\ UNCHANGED <<fixed, sessVars, connVars, n, disp, lastResult>>

MongoCounted(id) ==
  /\ Resumes("mongo", id, "count")
  /\ Drop(id)
  /\ \/ /\ out' = Out("count", DocCountOf(tasks[id].cap.a, tasks[id].cap.b))
        /\ Done(id, "ok", TRUE)
        /\ UNCHANGED procVars
     \/ /\ UnhandledRejection(id)
        /\ UNCHANGED out
  /\ NotPretty
  /\ UNCHANGED <<fixed, sessVars, connVars, n, disp, lastResult>>

\* .stats <collection> and .top <collection>, up to the await of the driver call
MongoStatsTop(l, h) ==
  /\ Arrive("mongo", l, h)
  /\ Dispatched(l, h, FALSE)
  /\ IF l.arg = <<>>
     THEN /\ out' = Out("usage", 0)
          /\ Done(n + 1, "usage", FALSE)
          /\ UNCHANGED tasks
     ELSE /\ Await(n + 1, l, h, CollHandle(currentDb, l.arg), 0)
          /\ UNCHANGED <<out, lastDone>>
  /\ NotPretty
  /\ UNCHANGED <<fixed, procVars, sessVars, connVars, lastResult>>

\* .stats / .top after the await: the driver call has failed, or it has
\* succeeded and console.dir(result, ...) reads `result`, which is declared
\* nowhere: a ReferenceError.  Either way the action's promise rejects.
MongoStatsTopResumed(id, h) ==
  /\ Resumes("mongo", id, h)
  /\ Drop(id)
  /\ UnhandledRejection(id)
  /\ NotPretty
  /\ UNCHANGED <<fixed, sessVars, connVars, n, out, disp, lastResult>>

\* as MongoPretty, switching the output on instead of toggling it
MongoPretty_AlwaysOn(l) ==
  /\ Arrive("mongo", l, "pretty")
  /\ Dispatched(l, "pretty", FALSE)
  /\ prettyOutput' = TRUE
  /\ out' = Out("pretty_on", 0)
  /\ Done(n + 1, "ok", TRUE)
  /\ prettyRun' = IF prettyRun = 1 THEN 2 ELSE 1
  /\ snap' = IF prettyRun = 1 THEN snap ELSE Session
  /\ UNCHANGED <<fixed, procVars, currentDb, promptStr, ctx, connVars, tasks, lastResult>>

\* .pretty
MongoPretty(l) ==
  /\ Arrive("mongo", l, "pretty")
  /\ Dispatched(l, "pretty", FALSE)
  /\ prettyOutput' = ~prettyOutput
  /\ out' = Out(IF prettyOutput' THEN "pretty_on" ELSE "pretty_off", 0)
  /\ Done(n + 1, "ok", TRUE)
  /\ prettyRun' = IF prettyRun = 1 THEN 2 ELSE 1
  /\ snap' = IF prettyRun = 1 THEN snap ELSE Session
  /\ UNCHANGED <<fixed, procVars, currentDb, promptStr, ctx, connVars, tasks, lastResult>>

\* a synchronous action that prints and redisplays the prompt
PrintsOnly(sh, l, h, tag) ==
  /\ Arrive(sh, l, h)
  /\ Dispatched(l, h, FALSE)
  /\ out' = Out(tag, 0)
  /\ Done(n + 1, "ok", TRUE)
  /\ NotPretty
  /\ UNCHANGED <<fixed, procVars, sessVars, connVars, tasks, lastResult>>

\* .clear
MongoClear(l) == PrintsOnly("mongo", l, "clear", "cleared")

\* .helpme
MongoHelpme(l) == PrintsOnly("mongo", l, "helpme", "help")

\* .help, the command every repl server has
MongoHelp(l) == PrintsOnly("mongo", l, "help", "help")

\* a dot-command nobody defined: "Invalid REPL keyword", prompt
MongoInvalid(l) == PrintsOnly("mongo", l, "invalid", "invalid_keyword")

\* .exit, up to the await of client.close()
MongoExit(l) ==
  /\ Arrive("mongo", l, "exit")
  /\ Dispatched(l, "exit", FALSE)
  /\ out' = Out("bye", 0)
  /\ Await(n + 1, l, "exit_close", Unbound, client)
  /\ NotPretty
  /\ UNCHANGED <<fixed, procVars, sessVars, connVars, lastDone, lastResult>>

\* .exit: the client is closed; process.exit(0)
MongoExitClosed(id) ==
  /\ Resumes("mongo", id, "exit_close")
  /\ Drop(id)
  /\ conn' = [conn EXCEPT ![tasks[id].cid] = "ended"]
  /\ Exit(0, "exit_command")
  /\ Done(id, "exit", FALSE)
  /\ NotPretty
  /\ UNCHANGED <<fixed, sessVars, client, n, out, disp, lastResult>>

\* what script.runInContext(context) returns for the expression of line l:
\* a bare identifier reads its binding; <identifier>.find().toArray() returns
\* a promise; an unbound identifier, or a binding without find, throws
Evaluate(c, l) ==
  IF l.name = "ident" THEN (IF c[l.arg] = Unbound THEN ErrVal ELSE c[l.arg])
  ELSE IF c[l.arg].t = "coll" THEN Pending(c[l.arg]) ELSE ErrVal

\* eval of repl.start, up to the await: a throw goes to callback(err)
MongoEval(l) ==
  /\ Arrive("mongo", l, "eval")
  /\ Dispatched(l, "eval", TRUE)
  /\ IF Evaluate(ctx, l) = ErrVal
     THEN /\ out' = Out("error", 0)
          /\ Done(n + 1, "caught", TRUE)
          /\ UNCHANGED tasks
     ELSE /\ Await(n + 1, l, "eval", Evaluate(ctx, l), 0)
          /\ UNCHANGED <<out, lastDone>>
  /\ NotPretty
  /\ UNCHANGED <<fixed, procVars, sessVars, connVars, lastResult>>

\* eval after the await: the result is printed, context.$ = result,
\* callback(null); a rejected promise goes to callback(err)
MongoEvalResumed(id) ==
  /\ Resumes("mongo", id, "eval")
  /\ Drop(id)
  /\ \/ LET cap == tasks[id].cap
            result == IF cap.t = "pending" THEN Docs(cap.a, cap.b) ELSE cap
        IN /\ out' = Out(IF prettyOutput THEN "inspect" ELSE "dir", result.k)
           /\ ctx' = [ctx EXCEPT ![KeyDollar] = result]
           /\ lastResult' = result
           /\ Done(id, "ok", TRUE)
     \/ /\ tasks[id].cap.t = "pending"
        /\ out' = Out("error", 0)
        /\ Done(id, "caught", TRUE)
        /\ UNCHANGED <<ctx, lastResult>>
  /\ NotPretty
  /\ UNCHANGED <<fixed, procVars, currentDb, promptStr, prettyOutput, connVars, n, disp>>

-----------------------------------------------------------------------------
(* PostgreSQL REPL: the command actions *)

\* a handler of the PostgreSQL REPL calls the driver on the current client
\* and awaits the result
PgAwaits(l, h, pc) ==
  /\ Arrive("pg", l, h)
  /\ Dispatched(l, h, h = "eval")
  /\ Await(n + 1, l, pc, Unbound, client)
  /\ NotPretty
  /\ UNCHANGED <<fixed, procVars, sessVars, connVars, out, lastDone, lastResult>>

\* client.query(sql) on client cid can deliver rows
QueryCanSucceed(cid, sql) == conn[cid] = "connected" /\ SqlOk(sql)

\* eval of repl.start: await client.query(cmd)
PgEval(l) == PgAwaits(l, "eval", "pg_eval")

\* eval after the await: context.$ = result.rows, the table is printed,
\* callback(null); an error goes to callback(err)
PgEvalResumed(id) ==
  /\ Resumes("pg", id, "pg_eval")
  /\ Drop(id)
  /\ \/ /\ QueryCanSucceed(tasks[id].cid, tasks[id].line.arg)
        /\ ctx' = [ctx EXCEPT ![KeyDollar] = Rows(tasks[id].line.arg)]
        /\ lastResult' = Rows(tasks[id].line.arg)
        /\ out' = Out(IF Rows(tasks[id].line.arg).k = 0 THEN "no_results" ELSE "table",
                      Rows(tasks[id].line.arg).k)
        /\ Done(id, "ok", TRUE)
     \/ /\ out' = Out("error", 0)
        /\ Done(id, "caught", TRUE)
        /\ UNCHANGED <<ctx, lastResult>>
  /\ NotPretty
  /\ UNCHANGED <<fixed, procVars, currentDb, promptStr, prettyOutput, connVars, n, disp>>

\* .tables: no try/catch around the query
PgTables(l) == PgAwaits(l, "tables", "tables")

PgTablesListed(id) ==
  /\ Resumes("pg", id, "tables")
  /\ Drop(id)
  /\ \/ /\ conn[tasks[id].cid] = "connected"
        /\ out' = Out("tables", 0)
        /\ Done(id, "ok", TRUE)
        /\ UNCHANGED procVars
     \/ /\ UnhandledRejection(id)
        /\ UNCHANGED out
  /\ NotPretty
  /\ UNCHANGED <<fixed, sessVars, connVars, n, disp, lastResult>>

\* .use <database>: await client.end()
PgUse(l) == PgAwaits(l, "use", "pguse_end")

\* .use: the old client has ended; client = new Client(...); await client.connect()
PgUseEnded(id) ==
  /\ Resumes("pg", id, "pguse_end")
  /\ client' = id
  /\ conn' = [conn EXCEPT ![tasks[id].cid] = IF @ = "connected" THEN "ended" ELSE @,
                          ![id] = "new"]
  /\ Move(id, "pguse_connect", Unbound, id)
  /\ NotPretty
  /\ UNCHANGED <<fixed, procVars, sessVars, n, out, disp, lastDone, lastResult>>

\* .use: the new client is connected (prompt set), or connecting has failed
\* (caught: "Failed to switch"); prompt
PgUseConnected(id) ==
  /\ Resumes("pg", id, "pguse_connect")
  /\ Drop(id)
  /\ \/ /\ conn' = [conn EXCEPT ![tasks[id].cid] = "connected"]
        /\ currentDb' = tasks[id].line.arg
        /\ promptStr' = tasks[id].line.arg
        /\ out' = Out("switched", 0)
        /\ Done(id, "ok", TRUE)
     \/ /\ conn' = [conn EXCEPT ![tasks[id].cid] = "failed"]
        /\ out' = Out("switch_failed", 0)
        /\ Done(id, "caught", TRUE)
        /\ UNCHANGED <<currentDb, promptStr>>
  /\ NotPretty
  /\ UNCHANGED <<fixed, procVars, prettyOutput, ctx, client, n, disp, lastResult>>

\* a handler whose query sits in try/catch and which leaves the context
\* alone: the rows are printed, or the error is; prompt
PgPrinted(id, pc, okOut, result) ==
  /\ Resumes("pg", id, pc)
  /\ Drop(id)
  /\ \/ /\ conn[tasks[id].cid] = "connected"
        /\ out' = okOut
        /\ lastResult' = IF result = Unbound THEN lastResult ELSE result
        /\ Done(id, "ok", TRUE)
     \/ /\ out' = Out("error", 0)
        /\ Done(id, "caught", TRUE)
        /\ UNCHANGED lastResult
  /\ NotPretty
  /\ UNCHANGED <<fixed, procVars, sessVars, connVars, n, disp>>

\* .describe <table>
PgDescribe(l) == PgAwaits(l, "describe", "describe")

PgDescribed(id) == PgPrinted(id, "describe", Out("columns", 0), Unbound)

\* .query <sql>
PgQuery(l) == PgAwaits(l, "query", "query")

PgQueried(id) ==
  /\ id \in DOMAIN tasks
  /\ PgPrinted(id, "query",
               Out(IF Rows(tasks[id].line.arg).k = 0 THEN "no_results" ELSE "table",
                   Rows(tasks[id].line.arg).k),
               Rows(tasks[id].line.arg))

\* .queryp <sql>: the values of $1..$k are asked for, then as .query
PgQueryp(l) == PgAwaits(l, "queryp", "queryp")

PgQuerypDone(id) ==
  /\ id \in DOMAIN tasks
  /\ PgPrinted(id, "queryp",
               Out(IF Rows(tasks[id].line.arg).k = 0 THEN "no_results" ELSE "table",
                   Rows(tasks[id].line.arg).k),
               Rows(tasks[id].line.arg))

\* SELECT COUNT(*) FROM <table>: the tables of the model are empty
TableCount(t) == 0

\* .count <table>
PgCount(l) == PgAwaits(l, "count", "pg_count")

PgCounted(id) ==
  /\ id \in DOMAIN tasks
  /\ PgPrinted(id, "pg_count", Out("count", TableCount(Trim(tasks[id].line.arg))), Unbound)

\* .export <filename.csv>: without an array in $ a warning and the prompt;
\* with an empty array Object.keys(r.context.$[0]) throws a TypeError inside
\* the async action; otherwise the await of writeFile
PgExport(l) ==
  /\ Arrive("pg", l, "export")
  /\ Dispatched(l, "export", FALSE)
  /\ IF ctx[KeyDollar].t # "rows"
     THEN /\ out' = Out("no_result", 0)
          /\ Done(n + 1, "usage", TRUE)
          /\ UNCHANGED <<procVars, tasks>>
     ELSE IF ctx[KeyDollar].k = 0
     THEN /\ UnhandledRejection(n + 1)
          /\ UNCHANGED <<out, tasks>>
     ELSE /\ Await(n + 1, l, "pgexport_write", ctx[KeyDollar], client)
          /\ UNCHANGED <<procVars, out, lastDone>>
  /\ NotPretty
  /\ UNCHANGED <<fixed, sessVars, connVars, lastResult>>

\* .export: the file is written (prompt), or writeFile has rejected
PgExportWritten(id) ==
  /\ Resumes("pg", id, "pgexport_write")
  /\ Drop(id)
  /\ \/ /\ out' = Out("exported_csv", tasks[id].cap.k)
        /\ Done(id, "ok", TRUE)
        /\ UNCHANGED procVars
     \/ /\ UnhandledRejection(id)
        /\ UNCHANGED out
  /\ NotPretty
  /\ UNCHANGED <<fixed, sessVars, connVars, n, disp, lastResult>>

\* .exit: await client.end()
PgExit(l) == PgAwaits(l, "exit", "pgexit_end")

\* .exit: the client has ended; "Bye"; process.exit(0)
PgExitEnded(id) ==
  /\ Resumes("pg", id, "pgexit_end")
  /\ Drop(id)
  /\ conn' = [conn EXCEPT ![tasks[id].cid] = IF @ = "connected" THEN "ended" ELSE @]
  /\ out' = Out("bye", 0)
  /\ Exit(0, "exit_command")
  /\ Done(id, "exit", FALSE)
  /\ NotPretty
  /\ UNCHANGED <<fixed, sessVars, client, n, disp, lastResult>>

\* .clear
PgClear(l) == PrintsOnly("pg", l, "clear", "cleared")

\* .help
PgHelp(l) == PrintsOnly("pg", l, "help", "help")

\* a dot-command nobody defined: "Invalid REPL keyword", prompt
PgInvalid(l) == PrintsOnly("pg", l, "invalid", "invalid_keyword")

-----------------------------------------------------------------------------
(* readline shell: the branches of shell.on('line') *)

\* exit / quit: "Bye"; await client.close()
RlExit(l) ==
  /\ Arrive("rl", l, "exit")
  /\ Dispatched(l, "exit", FALSE)
  /\ out' = Out("bye", 0)
  /\ Await(n + 1, l, "rl_exit", Unbound, client)
  /\ NotPretty
  /\ UNCHANGED <<fixed, procVars, sessVars, connVars, lastDone, lastResult>>

\* exit / quit: the client is closed; shell.close(); process.exit(0)
RlExitClosed(id) ==
  /\ Resumes("rl", id, "rl_exit")
  /\ Drop(id)
  /\ conn' = [conn EXCEPT ![tasks[id].cid] = "ended"]
  /\ Exit(0, "exit_command")
  /\ Done(id, "exit", FALSE)
  /\ NotPretty
  /\ UNCHANGED <<fixed, sessVars, client, n, out, disp, lastResult>>

\* use <dbname>: dbname = input.split(' ')[1]
RlUse(l) ==
  /\ Arrive("rl", l, "use")
  /\ Dispatched(l, "use", FALSE)
  /\ LET dbname == SplitSpace(Trim(l.arg))[2] IN
     IF dbname = <<>>
     THEN /\ out' = Out("usage", 0)
          /\ UNCHANGED <<currentDb, promptStr>>
     ELSE /\ currentDb' = dbname
          /\ promptStr' = dbname
          /\ out' = Out("switched", 0)
  /\ Done(n + 1, "ok", TRUE)
  /\ NotPretty
  /\ UNCHANGED <<fixed, procVars, prettyOutput, ctx, connVars, tasks, lastResult>>

\* databases / collections: the await of the listing, outside any try
RlLists(l, h) ==
  /\ Arrive("rl", l, h)
  /\ Dispatched(l, h, FALSE)
  /\ Await(n + 1, l, h, DbHandle(currentDb), client)
  /\ NotPretty
  /\ UNCHANGED <<fixed, procVars, sessVars, connVars, out, lastDone, lastResult>>

\* databases / collections: the listing is printed (prompt), or the call has
\* failed and the promise of the line handler rejects
RlListed(id, h) ==
  /\ Resumes("rl", id, h)
  /\ Drop(id)
  /\ \/ /\ out' = Out(h, 0)
        /\ Done(id, "ok", TRUE)
        /\ UNCHANGED procVars
     \/ /\ UnhandledRejection(id)
        /\ UNCHANGED out
  /\ NotPretty
  /\ UNCHANGED <<fixed, sessVars, connVars, n, disp, lastResult>>

\* any other line: try { await eval(`(async () => ${input})()`) }; an empty
\* input is a SyntaxError of eval itself, caught before any await
RlEval(l) ==
  /\ Arrive("rl", l, "eval")
  /\ Dispatched(l, "eval", TRUE)
  /\ IF Trim(l.arg) = <<>>
     THEN /\ out' = Out("error", 0)
          /\ Done(n + 1, "caught", TRUE)
          /\ UNCHANGED tasks
     ELSE /\ Await(n + 1, l, "rl_eval", Unbound, client)
          /\ UNCHANGED <<out, lastDone>>
  /\ NotPretty
  /\ UNCHANGED <<fixed, procVars, sessVars, connVars, lastResult>>

\* eval after the await: console.dir(result), or the caught error; prompt
RlEvalResumed(id) ==
  /\ Resumes("rl", id, "rl_eval")
  /\ Drop(id)
  /\ \/ /\ out' = Out("dir", 0)
        /\ Done(id, "ok", TRUE)
     \/ /\ out' = Out("error", 0)
        /\ Done(id, "caught", TRUE)
  /\ NotPretty
  /\ UNCHANGED <<fixed, procVars, sessVars, connVars, n, disp, lastResult>>

\* shell.on('close'): the input has ended; the handler awaits client.close()
\* and exits with 0
RlClose ==
  /\ proc = "running"
  /\ shell = "rl"
  /\ conn' = [conn EXCEPT ![client] = "ended"]
  /\ out' = Out("bye", 0)
  /\ Exit(0, "input_closed")
  /\ NotPretty
  /\ UNCHANGED <<fixed, sessVars, client, tasks, n, disp, lastDone, lastResult>>

-----------------------------------------------------------------------------
(* The programs *)

\* the lines that can arrive now at program sh
Incoming(sh) ==
  IF proc = "running" /\ shell = sh /\ n < MaxLines
  THEN (IF sh = "mongo" THEN MongoLines ELSE IF sh = "pg" THEN PgLines ELSE RlLines)
  ELSE {}

\* the handlers that are awaiting a driver call
Awaiting == IF proc = "running" THEN DOMAIN tasks ELSE {}

MongoNext ==
  \/ \E l \in Incoming("mongo") :
       \/ MongoUse(l) \/ MongoDatabases(l) \/ MongoCollections(l) \/ MongoExport(l)
       \/ MongoCount(l) \/ MongoStatsTop(l, "stats") \/ MongoStatsTop(l, "top")
       \/ MongoPretty(l)
       \/ MongoClear(l) \/ MongoHelpme(l) \/ MongoHelp(l) \/ MongoInvalid(l) \/ MongoExit(l) \/ MongoEval(l)
  \/ \E id \in Awaiting :
       \/ MongoUseListed(id) \/ MongoDatabasesListed(id) \/ MongoCollectionsListed(id)
       \/ MongoExportFound(id) \/ MongoExportWritten(id) \/ MongoCounted(id)
       \/ MongoStatsTopResumed(id, "stats") \/ MongoStatsTopResumed(id, "top")
       \/ MongoExitClosed(id)
       \/ MongoEvalResumed(id)

PgNext ==
  \/ \E l \in Incoming("pg") :
       \/ PgEval(l) \/ PgTables(l) \/ PgUse(l) \/ PgDescribe(l) \/ PgQuery(l)
       \/ PgQueryp(l) \/ PgCount(l) \/ PgExport(l) \/ PgExit(l) \/ PgClear(l) \/ PgHelp(l)
       \/ PgInvalid(l)
  \/ \E id \in Awaiting :
       \/ PgEvalResumed(id) \/ PgTablesListed(id) \/ PgUseEnded(id) \/ PgUseConnected(id)
       \/ PgDescribed(id) \/ PgQueried(id) \/ PgQuerypDone(id) \/ PgCounted(id)
       \/ PgExportWritten(id) \/ PgExitEnded(id)

RlNext ==
  \/ \E l \in Incoming("rl") :
       \/ RlExit(l) \/ RlUse(l) \/ RlLists(l, "databases") \/ RlLists(l, "collections")
       \/ RlEval(l)
  \/ \E id \in Awaiting :
       \/ RlExitClosed(id) \/ RlListed(id, "databases") \/ RlListed(id, "collections")
       \/ RlEvalResumed(id)
  \/ RlClose

Next ==
  \/ ConnectOk
  \/ ConnectFail
  \/ ConnectFailExit
  \/ MongoNext
  \/ PgNext
  \/ RlNext

\* the three programs
Spec == Init /\ [][Next]_vars

\* the MongoDB REPL
InitMongo == Init /\ shell = "mongo"
SpecMongo == InitMongo /\ [][ConnectOk \/ ConnectFail \/ ConnectFailExit \/ MongoNext]_vars

\* the PostgreSQL REPL
InitPg == Init /\ shell = "pg"
SpecPg == InitPg /\ [][ConnectOk \/ ConnectFail \/ PgNext]_vars

\* the readline shell
InitRl == Init /\ shell = "rl"
SpecRl == InitRl /\ [][ConnectOk \/ ConnectFail \/ RlNext]_vars

-----------------------------------------------------------------------------
(* The MongoDB .export command on argument texts of every shape *)

\* length of the filter text of the .export lines
MaxLit == 3

ArgAlphabet == {"{", "}", ":", "\"", "'", "a", "1", " "}

TextsUpTo(k) == UNION {[1..m -> ArgAlphabet] : m \in 0..k}

L_bareKey == <<"{", "a", ":", "}">>
L_object == <<"{", "\"", "a", "\"", ":", "1", "}">>

FilterTexts ==
  TextsUpTo(MaxLit) \cup {L_bareKey, L_object, <<"'">> \o L_object \o <<"'">>,
                          <<"{", "\"", "a", " ", "a", "\"", ":", "{", "}", "}">>}
ProjectionTexts == {<<>>, EmptyObject, L_bareKey, <<"'">> \o L_object \o <<"'">>}

ExportLines ==
  {Dot("export", <<"c", " ">> \o f \o <<" ">> \o p) :
     f \in FilterTexts, p \in ProjectionTexts}

\* a session of the MongoDB REPL whose one line is an .export command
SpecExport ==
  /\ InitMongo
  /\ [][\/ ConnectOk
        \/ \E l \in (IF proc = "running" /\ n = 0 THEN ExportLines ELSE {}) : MongoExport(l)
        \/ \E id \in Awaiting : MongoExportFound(id) \/ MongoExportWritten(id)]_vars

-----------------------------------------------------------------------------
(* CSV export of a result set, and a CSV reader *)

\* rows of a result set
MaxRows == 2

Columns == {<<"a">>, <<"b">>}
CellTexts == {<<"x">>, <<",">>, <<"\"">>, <<"\n">>}

\* a row: its fields <<key, value>> in insertion order, the keys distinct
RowsOver(keys) == {r \in [1..Cardinality(keys) -> keys \X CellTexts] :
                     \A i, j \in DOMAIN r : i # j => r[i][1] # r[j][1]}
AllRows == UNION {RowsOver(ks) : ks \in SUBSET Columns \ {{}}}
ResultSets == UNION {[1..m -> AllRows] : m \in 0..MaxRows}

\* Object.keys(row)
ObjectKeys(row) == [i \in DOMAIN row |-> row[i][1]]

KeySet(row) == {row[i][1] : i \in DOMAIN row}

S_undefined == <<"u", "n", "d", "e", "f", "i", "n", "e", "d">>

\* String(row[key]): the text of the field, "undefined" without the key
FieldText(row, key) ==
  IF key \in KeySet(row)
  THEN (CHOOSE f \in {row[i] : i \in DOMAIN row} : f[1] = key)[2]
  ELSE S_undefined

\* String(row[h] ?? "")
FieldTextOrEmpty(row, key) ==
  IF key \in KeySet(row) THEN FieldText(row, key) ELSE <<>>

\* parts.join(sep)
RECURSIVE Join(_, _)
Join(parts, sep) ==
  IF parts = <<>> THEN <<>>
  ELSE IF Len(parts) = 1 THEN parts[1]
  ELSE parts[1] \o sep \o Join(Tail(parts), sep)

\* text.replace(/"/g, '""')
RECURSIVE DoubleQuotes(_)
DoubleQuotes(t) ==
  IF t = <<>> THEN <<>>
  ELSE (IF Head(t) = "\"" THEN <<"\"", "\"">> ELSE <<Head(t)>>) \o DoubleQuotes(Tail(t))

\* `"${text.replace(/"/g, '""')}"`
Quoted(t) == <<"\"">> \o DoubleQuotes(t) \o <<"\"">>

\* jsonToCsv(data), for documents whose values are strings
JsonToCsv(data) ==
  IF Len(data) = 0 THEN <<>>
  ELSE LET headers == ObjectKeys(data[1])
           line(row) == Join([i \in DOMAIN headers |-> Quoted(FieldText(row, headers[i]))],
                             <<",">>)
       IN Join(<<Join(headers, <<",">>)>> \o [r \in DOMAIN data |-> line(data[r])],
               <<"\n">>)

\* the CSV text the PostgreSQL .export builds from a non-empty r.context.$
PgCsv(data) ==
  LET headers == ObjectKeys(data[1])
      line(row) == Join([i \in DOMAIN headers |->
                           Quoted(FieldTextOrEmpty(row, headers[i]))], <<",">>)
  IN Join(<<Join(headers, <<",">>)>> \o [r \in DOMAIN data |-> line(data[r])], <<"\n">>)

\* MongoDB: .export <collection> ... <file>.csv writes jsonToCsv(docs)
CsvExportMongo ==
  /\ csvPc = "ready"
  /\ shell = "mongo"
  /\ csvFile' = [written |-> TRUE, text |-> JsonToCsv(csvData)]
  /\ csvPc' = "done"
  /\ UNCHANGED <<shell, csvData, procVars, sessVars, connVars, tasks, n, out, disp,
                 lastDone, lastResult, prettyRun, snap>>

\* PostgreSQL: .export <file> with the array csvData in r.context.$; with an
\* empty array Object.keys(r.context.$[0]) throws and nothing is written
CsvExportPg ==
  /\ csvPc = "ready"
  /\ shell = "pg"
  /\ IF Len(csvData) = 0
     THEN csvPc' = "crashed" /\ UNCHANGED csvFile
     ELSE csvPc' = "done" /\ csvFile' = [written |-> TRUE, text |-> PgCsv(csvData)]
  /\ UNCHANGED <<shell, csvData, procVars, sessVars, connVars, tasks, n, out, disp,
                 lastDone, lastResult, prettyRun, snap>>

InitCsv ==
  /\ shell \in {"mongo", "pg"}
  /\ Started
  /\ csvData \in ResultSets
  /\ csvFile = NoFile
  /\ csvPc = "ready"

\* an export of each result set by each of the two REPLs
SpecCsv == InitCsv /\ [][CsvExportMongo \/ CsvExportPg]_vars

-----------------------------------------------------------------------------
(* Properties *)

\* C1: a failure inside a command never ends the process: the process ends
\* only by exit / quit, by a connection failure at startup, or by the end of
\* the input
C1_OnlyExitEndsTheSession ==
  proc = "exited" => exitCause \in {"exit_command", "connect_failed", "input_closed"}

\* C2: no two commands run concurrently: at most one handler is awaiting a
\* driver call at any time
C2_OneCommandAtATime == Cardinality(DOMAIN tasks) <= 1

\* C3: after a command has produced a result, $ is that result
C3_DollarIsLastResult == lastResult # Unbound => ctx[KeyDollar] = lastResult

LiveClients == {i \in DOMAIN conn : conn[i] = "connected"}

\* C4: at most one client is connected, and the variable `client` refers to it
C4_AtMostOneLiveClient ==
  /\ Cardinality(LiveClients) <= 1
  /\ \A i \in LiveClients : i = client

\* the command a line of the readline shell asks for, "" for an expression
RlCommandOf(text) ==
  IF text \in {S_exit, S_quit} THEN "exit"
  ELSE IF text = S_databases THEN "databases"
  ELSE IF text = S_collections THEN "collections"
  ELSE IF Len(text) > 4 /\ SubSeq(text, 1, 4) = S_use_sp THEN "use"
  ELSE ""

\* C5: a line that invokes a defined command runs the handler defined under
\* that name, with that line, and is not handed to the eval function
C5_RoutedToItsHandler ==
  /\ (disp.line.kind = "dot" /\ disp.line.name \in Commands(shell))
       => (disp.handler = disp.line.name /\ ~disp.evald)
  /\ (disp.line.kind = "text" /\ RlCommandOf(Trim(disp.line.arg)) # "")
       => (disp.handler = RlCommandOf(Trim(disp.line.arg)) /\ ~disp.evald)
  /\ \A id \in DOMAIN tasks :
       tasks[id].line.kind = "dot" => tasks[id].h = tasks[id].line.name

\* C5 happens: `.use A` has been routed to the use action of the MongoDB
\* REPL, which awaits the listing of the collections
C5_Witness ==
  /\ shell = "mongo"
  /\ disp = [line |-> Dot("use", DbA), handler |-> "use", evald |-> FALSE]
  /\ n \in DOMAIN tasks
  /\ tasks[n].pc = "use_list"
  /\ tasks[n].line = Dot("use", DbA)

\* the text of argument i of an .export line is no JSON
Malformed(args, i) == Len(args) >= i /\ ~JsonParses(StripQuotes(args[i]))

\* C6: .export with a malformed filter or projection literal queries with the
\* empty object in its place, prints the warning, and the handler goes on to
\* its query and its end with the session running
C6_MalformedFallsBackToEmpty ==
  (n = 1 /\ disp.handler = "export" /\ ExportArgs(disp.line.arg) # <<>>) =>
    LET args == ExportArgs(disp.line.arg) IN
    /\ proc = "running"
    /\ \/ /\ 1 \in DOMAIN tasks
          /\ tasks[1].pc \in {"export_find", "export_write"}
          /\ Malformed(args, 2) => tasks[1].q[1] = EmptyObject
          /\ Malformed(args, 3) => tasks[1].q[2] = EmptyObject
          /\ (Malformed(args, 2) \/ Malformed(args, 3)) => out.tag = "invalid_json"
       \/ /\ DOMAIN tasks = {}
          /\ lastDone.id = 1
          /\ lastDone.outcome \in {"ok", "caught"}
          /\ lastDone.prompted

\* C6 happens: an .export whose filter and projection are both `{a:}` has
\* queried with two empty objects and awaits the write of its file
C6_Witness ==
  /\ disp.line = Dot("export", <<"c", " ">> \o L_bareKey \o <<" ">> \o L_bareKey)
  /\ 1 \in DOMAIN tasks
  /\ tasks[1].pc = "export_write"
  /\ tasks[1].q = <<EmptyObject, EmptyObject>>

\* A reader of comma-separated text with double-quote escaping: fields are
\* separated by commas and records by newlines outside quotes, a quoted field
\* runs to its closing quote, "" inside it is one quote, a blank line is no
\* record.  st: the field and record being read, the records read, whether
\* the reader is inside quotes, whether the current record has begun.
RECURSIVE CsvRead(_, _)
CsvRead(t, st) ==
  LET close == [st EXCEPT !.recs = IF st.begun THEN Append(@, Append(st.rec, st.field))
                                   ELSE @,
                          !.rec = <<>>, !.field = <<>>, !.begun = FALSE]
  IN
  IF t = <<>> THEN close.recs
  ELSE IF st.inq THEN
    IF Head(t) = "\"" THEN
      IF Len(t) >= 2 /\ t[2] = "\""
      THEN CsvRead(Tail(Tail(t)), [st EXCEPT !.field = Append(@, "\"")])
      ELSE CsvRead(Tail(t), [st EXCEPT !.inq = FALSE])
    ELSE CsvRead(Tail(t), [st EXCEPT !.field = Append(@, Head(t))])
  ELSE IF Head(t) = "\"" THEN CsvRead(Tail(t), [st EXCEPT !.inq = TRUE, !.begun = TRUE])
  ELSE IF Head(t) = "," THEN
    CsvRead(Tail(t), [st EXCEPT !.rec = Append(@, st.field), !.field = <<>>,
                                !.begun = TRUE])
  ELSE IF Head(t) = "\n" THEN CsvRead(Tail(t), close)
  ELSE CsvRead(Tail(t), [st EXCEPT !.field = Append(@, Head(t)), !.begun = TRUE])

ParseCsv(t) ==
  CsvRead(t, [field |-> <<>>, rec |-> <<>>, recs |-> <<>>, inq |-> FALSE, begun |-> FALSE])

\* what a reader of the file finds: the header set and the number of rows
ReadHeaders(t) ==
  IF ParseCsv(t) = <<>> THEN {} ELSE {ParseCsv(t)[1][i] : i \in DOMAIN ParseCsv(t)[1]}
ReadRowCount(t) == IF ParseCsv(t) = <<>> THEN 0 ELSE Len(ParseCsv(t)) - 1

\* the keys of the rows of a result set
HeaderSet(data) == UNION {KeySet(data[i]) : i \in DOMAIN data}

\* C7: the CSV file an export writes reads back with the header set and the
\* row count of the exported result set
C7_CsvRoundTrip ==
  csvPc \in {"done", "crashed"} =>
    /\ csvFile.written
    /\ ReadHeaders(csvFile.text) = HeaderSet(csvData)
    /\ ReadRowCount(csvFile.text) = Len(csvData)

\* C8: when .use <name> has finished and nothing else runs, the alias of every
\* collection of <name> evaluates to that collection's handle in <name>
C8_AliasResolvesToCollection ==
  (shell = "mongo" /\ proc = "running" /\ DOMAIN tasks = {} /\ n >= 1
     /\ lastDone.id = n /\ lastDone.handler = "use" /\ lastDone.outcome = "ok") =>
    \A c \in Collections(Trim(disp.line.arg)) :
      Evaluate(ctx, Raw("ident", NormalizeAlias(c))) = CollHandle(Trim(disp.line.arg), c)

\* C9: two .pretty commands in a row leave the pretty-output flag, the current
\* database, the prompt and the context as they were before the first
C9_PrettyTwiceRestores == prettyRun = 2 => Session = snap

\* C9 happens: .pretty has run twice in a row in database A
C9_Witness == prettyRun = 2 /\ currentDb = DbA /\ ~prettyOutput

\* C10: .exit and .quit both run the exit handler, which closes the client
\* and then ends the process with code 0
C10_ExitAndQuitEndTheSession ==
  /\ (shell \in {"mongo", "pg"} /\ disp.line.kind = "dot"
        /\ disp.line.name \in {"exit", "quit"}) => disp.handler = "exit"
  /\ exitCause = "exit_command" => (exitCode = 0 /\ LiveClients = {})

\* the handler of line id is a .count that awaits the count of an existing
\* collection or table without entries, on a client that is connected
CountsEmpty(id) ==
  /\ proc = "running"
  /\ id \in DOMAIN tasks
  /\ tasks[id].h = "count"
  /\ IF shell = "mongo"
     THEN /\ tasks[id].cap.b \in Collections(tasks[id].cap.a)
          /\ DocCountOf(tasks[id].cap.a, tasks[id].cap.b) = 0
     ELSE /\ shell = "pg"
          /\ conn[tasks[id].cid] = "connected"
          /\ TableCount(Trim(tasks[id].line.arg)) = 0

\* the step prints the count 0, ends the handler of line id as a success with
\* the prompt displayed, and leaves the process running
ReportsZero(id) ==
  /\ out' = Out("count", 0)
  /\ lastDone' = [id |-> id, handler |-> "count", outcome |-> "ok", prompted |-> TRUE]
  /\ proc' = "running"

\* C11: a .count of an existing collection or table without entries can
\* always complete by reporting 0, and whenever its driver call delivers it
\* completes that way: the count 0 printed, the prompt displayed, the session
\* running, in the MongoDB and in the PostgreSQL REPL
C11_CountOfEmptyReportsZero ==
  /\ [](\A id \in 1..MaxLines :
          CountsEmpty(id) => ENABLED ((MongoCounted(id) \/ PgCounted(id)) /\ ReportsZero(id)))
  /\ [][\A id \in 1..MaxLines :
          (CountsEmpty(id) /\ id \notin DOMAIN tasks' /\ lastDone'.outcome = "ok")
            => ReportsZero(id)]_vars

\* C11 happens: `.count c` in the default database of the MongoDB REPL, where
\* c exists and is empty, has printed 0 and displayed the prompt
C11_Witness ==
  /\ shell = "mongo"
  /\ proc = "running"
  /\ currentDb = DbDefault
  /\ disp.line = Dot("count", <<"c">>)
  /\ lastDone = [id |-> n, handler |-> "count", outcome |-> "ok", prompted |-> TRUE]
  /\ out = Out("count", 0)

\* C12: a dot-command other than .exit that has finished, by its success, by
\* its usage warning or by an error it caught, has displayed the prompt
C12_FinishedCommandPrompts ==
  (lastDone.handler \notin {"none", "exit", "eval"}
     /\ lastDone.outcome \in {"ok", "usage", "caught"}) => lastDone.prompted

\* C13: when a .use of the MongoDB REPL has finished and nothing else runs,
\* every collection handle bound in the context, $ aside, is a collection of
\* the current database
C13_AliasesOfCurrentDb ==
  (shell = "mongo" /\ proc = "running" /\ DOMAIN tasks = {} /\ n >= 1
     /\ lastDone.id = n /\ lastDone.handler = "use" /\ lastDone.outcome = "ok") =>
    \A k \in CtxKeys \ {KeyDollar} : ctx[k].t = "coll" => ctx[k].a = currentDb

====
